---- MODULE Spec2Model ----
(***************************************************************************)
(* Tutor / student matchmaking backend (src/app.py).                       *)
(*                                                                         *)
(* The two JSON files are the only shared state.  Every handler loads a    *)
(* whole document, mutates the in-memory dict and writes the whole         *)
(* document back.                                                          *)
(*                                                                         *)
(* JSON values that reach the code's truthiness tests, dict lookups and    *)
(* dict-key coercion are tagged records [t, v]: t is the JSON type and v   *)
(* the text json.dumps would give the value as an object key.              *)
(***************************************************************************)
EXTENDS Naturals, Sequences, FiniteSets, TLC

VARIABLES
    tutors,     \* data/tutors.json as the JSON object it holds
    students,   \* data/students.json as the JSON object it holds
    last,       \* one request at a time: the request served last, its response
    selected,   \* successful selections of each tutor key since its registration
    loc,        \* interleaved requests: each worker's position and locals
    begun       \* interleaved requests: how many requests have begun

vars == <<tutors, students, last, selected, loc, begun>>

\* ------------------------------------------------------------------ bounds
\* Longest notifications list a tutor accumulates in the model.
MaxNotifs == 2
\* Number of requests the interleaved workers begin.
MaxRequests == 5

\* ------------------------------------------------------------- JSON values
Str(s) == [t |-> "str", v |-> s]
Num(s) == [t |-> "int", v |-> s]
Null == [t |-> "null", v |-> "null"]
List1 == [t |-> "list", v |-> "[1]"]

\* Faulty variant: the test `tutor_id is None` in place of `not tutor_id`.
TruthyNotNone(x) == x.t # "null"

\* Python truthiness of a JSON value (`if not tutor_id`).
Truthy(x) ==
    CASE x.t = "null" -> FALSE
      [] x.t = "str" -> x.v # ""
      [] x.t = "int" -> x.v # "0"
      [] x.t = "list" -> x.v # "[]"

\* A list cannot be a dict key or be looked up in a dict: TypeError.
Hashable(x) == x.t # "list"

\* json.dump turns a dict key into the member name it writes.
json_key(k) == k.v

\* dict.get(key): None when the key is missing.
Get(d, k) == IF k \in DOMAIN d THEN d[k] ELSE Null

\* d[k] = val on an in-memory dict.
dict_setitem(d, k, val) == [x \in DOMAIN d \cup {k} |-> IF x = k THEN val ELSE d[x]]

\* The empty JSON object json.dump({}, f) writes at start-up.
EmptyDoc == [x \in {} |-> Null]

\* ------------------------------------------------------------------- store
\* ensure_data_files_exist: both documents start as the empty object.
ensure_data_files_exist == [tutorsFile |-> EmptyDoc, studentsFile |-> EmptyDoc]

\* load_data: json.load of the whole document; every key of the dict it
\* returns is a Python str.
load_data(file) == [k \in {Str(s) : s \in DOMAIN file} |-> file[k.v]]

\* save_data: json.dump of the whole dict, seen as the object a later
\* json.load parses.  Keys are coerced to member names; the dict holds the
\* loaded str keys first and at most one key set afterwards, and of two
\* members with one name json.load keeps the last one written.
save_data(data) ==
    [s \in {json_key(k) : k \in DOMAIN data} |->
        IF \E k \in DOMAIN data : k.t # "str" /\ json_key(k) = s
        THEN data[CHOOSE k \in DOMAIN data : k.t # "str" /\ json_key(k) = s]
        ELSE data[Str(s)]]

\* ------------------------------------------------------------------ inputs
Names == {"Jane"}
TutorIdValues == {Str(""), Str("t1"), Num("5"), List1}
StudentIdValues == {Str(""), Str("s1"), Str("s2"), List1}
\* datetime.now().isoformat(): a reading of the wall clock, which no handler
\* ever reads back.
Timestamps == {"2026-11-05T12:00:00"}

\* A notifications value a client may put in its own registration body.
Forged == <<[student_id |-> Str("s1"), message |-> "forged", timestamp |-> "forged"]>>

\* A request body: a JSON object as a function from member names to values;
\* a member the client left out is not in its DOMAIN.
With(b, f, val) == [x \in DOMAIN b \cup {f} |-> IF x = f THEN val ELSE b[x]]
WithId(ids) == {EmptyDoc} \cup {With(EmptyDoc, "id", i) : i \in ids}
WithName(bodies) == bodies \cup {With(b, "name", Str(n)) : b \in bodies, n \in Names}
WithNotifications(bodies) == bodies \cup {With(b, "notifications", Forged) : b \in bodies}

TutorBodies == WithNotifications(WithName(WithId(TutorIdValues)))
StudentBodies == {With(b, "name", Str("Sam")) : b \in WithId(StudentIdValues)}

SelectBodies ==
    LET tids == {Null, Str("t1"), Str("5"), Num("5"), List1}
        sids == {Null, Str("s1"), Str("s2"), List1}
    IN {[tutorId |-> a, studentId |-> b] : a \in tids, b \in sids}

PathIds == {"t1", "5"}

\* ---------------------------------------------------------------- handlers
Response(status, message) == [status |-> status, message |-> message]

\* Faulty variant: tutor_data.setdefault('notifications', []) keeps what the client sent.
tutor_record_setdefault(tutor_data) ==
    IF "notifications" \in DOMAIN tutor_data THEN tutor_data
    ELSE dict_setitem(tutor_data, "notifications", <<>>)

\* Faulty variant: line 67 left out.
tutor_record_as_sent(tutor_data) == tutor_data

\* Line 67: tutor_data['notifications'] = []
tutor_record(tutor_data) == dict_setitem(tutor_data, "notifications", <<>>)

\* Faulty variant: a registration that keeps the notifications of the record it replaces.
register_tutor_keeps_history(tutor_data, tutorsFile) ==
    LET tutor_id == Get(tutor_data, "id") IN
    IF ~Truthy(tutor_id)
    THEN [resp |-> Response(400, "Tutor ID is required"), file |-> tutorsFile]
    ELSE LET data == load_data(tutorsFile)
             kept == IF json_key(tutor_id) \in DOMAIN tutorsFile
                     THEN tutorsFile[json_key(tutor_id)]["notifications"]
                     ELSE <<>>
         IN
         IF ~Hashable(tutor_id)
         THEN [resp |-> Response(500, "Failed to save tutor profile"),
               file |-> tutorsFile]
         ELSE [resp |-> Response(201, "Tutor profile saved successfully!"),
               file |-> save_data(dict_setitem(data, tutor_id,
                                     dict_setitem(tutor_data, "notifications", kept)))]

\* register_tutor: the response and the tutors document it leaves.
register_tutor(tutor_data, tutorsFile) ==
    LET tutor_id == Get(tutor_data, "id") IN
    IF ~Truthy(tutor_id)
    THEN [resp |-> Response(400, "Tutor ID is required"), file |-> tutorsFile]
    ELSE LET data == load_data(tutorsFile) IN
         IF ~Hashable(tutor_id)
         THEN [resp |-> Response(500, "Failed to save tutor profile"),
               file |-> tutorsFile]
         ELSE [resp |-> Response(201, "Tutor profile saved successfully!"),
               file |-> save_data(dict_setitem(data, tutor_id, tutor_record(tutor_data)))]

\* register_student: the response and the students document it leaves.
register_student(student_data, studentsFile) ==
    LET student_id == Get(student_data, "id") IN
    IF ~Truthy(student_id)
    THEN [resp |-> Response(400, "Student ID is required"), file |-> studentsFile]
    ELSE LET data == load_data(studentsFile) IN
         IF ~Hashable(student_id)
         THEN [resp |-> Response(500, "Failed to save student profile"),
               file |-> studentsFile]
         ELSE [resp |-> Response(201, "Student profile saved successfully!"),
               file |-> save_data(dict_setitem(data, student_id, student_data))]

\* Line 109: one tutor without its notifications member.
strip_notifications(tutor) == [k \in DOMAIN tutor \ {"notifications"} |-> tutor[k]]

\* get_all_tutors: the list of the response, as the set of its elements
\* (the records of distinct keys differ in their id, so no element repeats).
get_all_tutors(tutorsFile) ==
    LET data == load_data(tutorsFile) IN
    {strip_notifications(data[k]) : k \in DOMAIN data}

\* Lines 137-141: the notification of one selection.
notification(student_id, now) ==
    [student_id |-> student_id,
     message |-> "Student " \o student_id.v \o " is interested in your services.",
     timestamp |-> now]

\* Faulty variant: the existence check looks at the tutor only.
select_check_tutor_only(tutor_id, student_id, tutor_data, student_data) ==
    IF ~Truthy(tutor_id) \/ ~Truthy(student_id) THEN 400
    ELSE IF ~Hashable(tutor_id) THEN 500
    ELSE IF tutor_id \notin DOMAIN tutor_data THEN 404
    ELSE IF "notifications" \notin DOMAIN tutor_data[tutor_id] THEN 500
    ELSE 0

\* Faulty variant: `and` in place of `or` in the existence check.
select_check_and(tutor_id, student_id, tutor_data, student_data) ==
    IF ~Truthy(tutor_id) \/ ~Truthy(student_id) THEN 400
    ELSE IF ~Hashable(tutor_id) THEN 500
    ELSE IF tutor_id \in DOMAIN tutor_data THEN
            (IF "notifications" \notin DOMAIN tutor_data[tutor_id] THEN 500 ELSE 0)
    ELSE IF ~Hashable(student_id) THEN 500
    ELSE IF student_id \notin DOMAIN student_data THEN 404
    ELSE 500

\* Lines 125-134: the status select_tutor stops with before it appends, 0
\* when it goes on.  `x not in d` raises TypeError for a list x, and `or`
\* does not evaluate its second operand when the first is true.
select_check(tutor_id, student_id, tutor_data, student_data) ==
    IF ~Truthy(tutor_id) \/ ~Truthy(student_id) THEN 400
    ELSE IF ~Hashable(tutor_id) THEN 500
    ELSE IF tutor_id \notin DOMAIN tutor_data THEN 404
    ELSE IF ~Hashable(student_id) THEN 500
    ELSE IF student_id \notin DOMAIN student_data THEN 404
    ELSE IF "notifications" \notin DOMAIN tutor_data[tutor_id] THEN 500
    ELSE 0

\* Faulty variant: insert(0, notification) in place of append(notification).
insert_notification(tutor_data, tutor_id, n) ==
    [tutor_data EXCEPT ![tutor_id] =
        dict_setitem(@, "notifications", <<n>> \o @["notifications"])]

\* Line 144: tutor_data[tutor_id]['notifications'].append(notification)
append_notification(tutor_data, tutor_id, n) ==
    [tutor_data EXCEPT ![tutor_id] =
        dict_setitem(@, "notifications", Append(@["notifications"], n))]

select_message(status) ==
    CASE status = 400 -> "Tutor ID and Student ID are required"
      [] status = 404 -> "Tutor or student not found"
      [] status = 500 -> "Failed to notify tutor"
      [] status = 200 -> "Tutor notified successfully!"

\* select_tutor: the response and the tutors document it leaves.
select_tutor(request_data, tutorsFile, studentsFile, now) ==
    LET tutor_id == Get(request_data, "tutorId")
        student_id == Get(request_data, "studentId")
        tutor_data == load_data(tutorsFile)
        student_data == load_data(studentsFile)
        stop == select_check(tutor_id, student_id, tutor_data, student_data)
    IN IF stop # 0
       THEN [resp |-> Response(stop, select_message(stop)), file |-> tutorsFile]
       ELSE [resp |-> Response(200, select_message(200)),
             file |-> save_data(append_notification(tutor_data, tutor_id,
                                                    notification(student_id, now)))]

\* Faulty variant: no 404; a tutor that is not found has no notifications.
get_tutor_notifications_no_404(tutor_id, tutorsFile) ==
    LET tutor_data == load_data(tutorsFile)
        key == Str(tutor_id)
    IN [resp |-> Response(200, ""),
        notifications |-> IF key \in DOMAIN tutor_data
                          THEN tutor_data[key]["notifications"]
                          ELSE <<>>]

\* get_tutor_notifications: the response; `not tutor_profile` is true for a
\* missing key and for an empty record.
get_tutor_notifications(tutor_id, tutorsFile) ==
    LET tutor_data == load_data(tutorsFile)
        key == Str(tutor_id)
    IN IF key \notin DOMAIN tutor_data \/ DOMAIN tutor_data[key] = {}
       THEN [resp |-> Response(404, "Tutor not found"), notifications |-> <<>>]
       ELSE [resp |-> Response(200, ""),
             notifications |-> IF "notifications" \in DOMAIN tutor_data[key]
                               THEN tutor_data[key]["notifications"]
                               ELSE <<>>]

\* ------------------------------------------------- one request at a time
\* `last` is the request served last with its response; for a registration
\* that replaced a tutor, `existed` says so and `dropped` counts the
\* notifications the replaced record held.
Served(op, arg, resp, list, notifications) ==
    [op |-> op, arg |-> arg, status |-> resp.status, message |-> resp.message,
     list |-> list, notifications |-> notifications, existed |-> FALSE, dropped |-> 0]

NoRequest == Served("none", EmptyDoc, Response(0, ""), {}, <<>>)

Procs == {"p1", "p2"}

NoLost == [op |-> "none", arg |-> EmptyDoc, now |-> ""]

\* A worker between requests.
Idle ==
    [pc |-> "idle", op |-> "none", arg |-> EmptyDoc, data |-> EmptyDoc,
     snap |-> EmptyDoc, now |-> "", status |-> 0, lost |-> NoLost]

Init ==
    /\ tutors = ensure_data_files_exist.tutorsFile
    /\ students = ensure_data_files_exist.studentsFile
    /\ last = NoRequest
    /\ selected = EmptyDoc
    /\ loc = [p \in Procs |-> Idle]
    /\ begun = 0

\* The model stops a tutor's list at MaxNotifs entries.
WithinBounds(file) ==
    \A k \in DOMAIN file :
        "notifications" \in DOMAIN file[k] => Len(file[k]["notifications"]) <= MaxNotifs

RegisterTutor(body) ==
    LET r == register_tutor(body, tutors)
        key == json_key(Get(body, "id"))
        existed == r.resp.status = 201 /\ key \in DOMAIN tutors
    IN
    /\ tutors' = r.file
    /\ last' = [Served("register_tutor", body, r.resp, {}, <<>>) EXCEPT
                    !.existed = existed,
                    !.dropped = IF existed THEN Len(tutors[key]["notifications"]) ELSE 0]
    /\ selected' = IF r.resp.status = 201
                   THEN dict_setitem(selected, json_key(Get(body, "id")), 0)
                   ELSE selected
    /\ UNCHANGED <<students, loc, begun>>

RegisterStudent(body) ==
    LET r == register_student(body, students) IN
    /\ students' = r.file
    /\ last' = Served("register_student", body, r.resp, {}, <<>>)
    /\ UNCHANGED <<tutors, selected, loc, begun>>

ListTutors ==
    /\ last' = Served("get_all_tutors", EmptyDoc, Response(200, ""),
                      get_all_tutors(tutors), <<>>)
    /\ UNCHANGED <<tutors, students, selected, loc, begun>>

SelectTutor(body, now) ==
    LET r == select_tutor(body, tutors, students, now) IN
    /\ WithinBounds(r.file)
    /\ tutors' = r.file
    /\ last' = Served("select_tutor", body, r.resp, {}, <<>>)
    /\ selected' = IF r.resp.status = 200
                   THEN [selected EXCEPT ![json_key(Get(body, "tutorId"))] = @ + 1]
                   ELSE selected
    /\ UNCHANGED <<students, loc, begun>>

GetTutorNotifications(tutor_id) ==
    LET r == get_tutor_notifications(tutor_id, tutors) IN
    /\ last' = Served("get_tutor_notifications", [tutor_id |-> Str(tutor_id)],
                      r.resp, {}, r.notifications)
    /\ UNCHANGED <<tutors, students, selected, loc, begun>>

Next ==
    \/ \E body \in TutorBodies : RegisterTutor(body)
    \/ \E body \in StudentBodies : RegisterStudent(body)
    \/ ListTutors
    \/ \E body \in SelectBodies, now \in Timestamps : SelectTutor(body, now)
    \/ \E tutor_id \in PathIds : GetTutorNotifications(tutor_id)

Spec == Init /\ [][Next]_vars

\* ------------------------------------- properties, one request at a time
\* The id a served request named, and whether it is a key of a document
\* (the keys of a loaded dict are strs, so only a str can equal one).
IsKey(x, file) == x.t = "str" /\ x.v \in DOMAIN file
NotificationsOf(file, key) == file[key]["notifications"]
Answered(op) == last'.op = op

\* C1: a SelectTutor whose tutorId is a key of the tutor map and whose
\* studentId is a key of the student map answers 200 and leaves the tutor's
\* notifications equal to the old sequence with one notification appended,
\* carrying that student_id and the templated message; so the length of the
\* list is the number of successful selections since the registration.
SelectAppendsOne ==
    /\ [](\A t \in DOMAIN tutors : Len(NotificationsOf(tutors, t)) = selected[t])
    /\ [][\A t \in DOMAIN tutors, s \in DOMAIN students :
            (/\ Answered("select_tutor")
             /\ last'.arg = [tutorId |-> Str(t), studentId |-> Str(s)]
             /\ "notifications" \in DOMAIN tutors[t])
            => /\ last'.status = 200
               /\ DOMAIN tutors' = DOMAIN tutors
               /\ Len(NotificationsOf(tutors', t)) = Len(NotificationsOf(tutors, t)) + 1
               /\ SubSeq(NotificationsOf(tutors', t), 1, Len(NotificationsOf(tutors, t)))
                     = NotificationsOf(tutors, t)
               /\ LET n == NotificationsOf(tutors', t)[Len(NotificationsOf(tutors', t))]
                  IN /\ n.student_id = Str(s)
                     /\ n.message = "Student " \o s \o " is interested in your services."
               /\ selected'[t] = selected[t] + 1]_vars

\* C1 witness: a second selection has been appended after one by another student.
SelectAppendsOneWitness ==
    /\ last.op = "select_tutor" /\ last.status = 200
    /\ LET t == json_key(last.arg.tutorId)
       IN /\ Len(NotificationsOf(tutors, t)) = 2
          /\ NotificationsOf(tutors, t)[2].student_id = last.arg.studentId
          /\ NotificationsOf(tutors, t)[1].student_id # last.arg.studentId

\* What C2 is about: a select whose ids are both truthy and one of which is
\* no key of its map.
SelectOfUnknown ==
    /\ Answered("select_tutor")
    /\ Truthy(Get(last'.arg, "tutorId")) /\ Truthy(Get(last'.arg, "studentId"))
    /\ \/ ~IsKey(Get(last'.arg, "tutorId"), tutors)
       \/ ~IsKey(Get(last'.arg, "studentId"), students)

\* C2 as stated: a SelectTutor with truthy ids of which the tutorId is no key
\* of the tutor map or the studentId no key of the student map answers 404
\* and leaves both documents as they were.
SelectUnknownIs404 ==
    [][SelectOfUnknown
        => last'.status = 404 /\ tutors' = tutors /\ students' = students]_vars

\* C2 amended: such a SelectTutor leaves both documents as they were and
\* answers 404 when neither id is a JSON array; with an array among the ids
\* the answer is 404 or 500.
SelectUnknownWritesNothing ==
    [][SelectOfUnknown
        => /\ tutors' = tutors /\ students' = students
           /\ last'.status \in {404, 500}
           /\ (Hashable(Get(last'.arg, "tutorId")) /\ Hashable(Get(last'.arg, "studentId")))
                 => last'.status = 404]_vars

\* C2 witness: a registered tutor with a notification was selected by a
\* student that is not registered.
SelectUnknownWitness ==
    /\ last.op = "select_tutor" /\ last.status = 404
    /\ IsKey(last.arg.tutorId, tutors)
    /\ last.arg.studentId.t = "str" /\ ~IsKey(last.arg.studentId, students)
    /\ Len(NotificationsOf(tutors, last.arg.tutorId.v)) = 1

\* The record a registration stores: the body with notifications emptied.
StoredFor(body) ==
    [f \in DOMAIN body \cup {"notifications"} |->
        IF f = "notifications" THEN <<>> ELSE body[f]]
ListedFor(body) == [f \in DOMAIN body \ {"notifications"} |-> body[f]]

\* C3 as stated: every RegisterTutor with a truthy id answers 201 and stores
\* the record with empty notifications.
RegisterTruthyIs201 ==
    [][(Answered("register_tutor") /\ Truthy(Get(last'.arg, "id")))
        => /\ last'.status = 201
           /\ tutors'[json_key(last'.arg.id)] = StoredFor(last'.arg)]_vars

\* C3 amended: every RegisterTutor with a truthy id that is a JSON string or
\* number answers 201, the record under the id's member name is the body with
\* notifications empty whatever the client sent, every other tutor's record
\* is unchanged, and a ListTutors served next returns the body without a
\* notifications member; with a JSON array as id the answer is 500 and
\* nothing is written.
RegisterStoresRecord ==
    /\ [][(Answered("register_tutor") /\ Truthy(Get(last'.arg, "id")))
           => IF Hashable(last'.arg.id)
              THEN LET key == json_key(last'.arg.id)
                   IN /\ last'.status = 201
                      /\ DOMAIN tutors' = DOMAIN tutors \cup {key}
                      /\ tutors'[key] = StoredFor(last'.arg)
                      /\ \A k \in DOMAIN tutors \ {key} : tutors'[k] = tutors[k]
                      /\ ListedFor(last'.arg) \in get_all_tutors(tutors')
              ELSE last'.status = 500 /\ tutors' = tutors]_vars
    /\ [][(last.op = "register_tutor" /\ last.status = 201 /\ last'.op = "get_all_tutors")
           => /\ ListedFor(last.arg) \in last'.list
              /\ \A r \in last'.list : "notifications" \notin DOMAIN r]_vars

\* C3 witness: a registration that carried notifications of the client's own
\* was stored beside a tutor that holds a notification.
RegisterStoresRecordWitness ==
    /\ last.op = "register_tutor" /\ last.status = 201
    /\ "notifications" \in DOMAIN last.arg /\ "name" \in DOMAIN last.arg
    /\ \E k \in DOMAIN tutors \ {json_key(last.arg.id)} :
          Len(NotificationsOf(tutors, k)) = 1

\* C4: a RegisterTutor whose id is already a key of the tutor map replaces
\* the whole record: what is stored has the members of the new body only,
\* its notifications are empty, and the map has the keys it had.
ReregisterReplaces ==
    [][(/\ Answered("register_tutor")
        /\ Truthy(Get(last'.arg, "id")) /\ Hashable(Get(last'.arg, "id"))
        /\ json_key(Get(last'.arg, "id")) \in DOMAIN tutors)
        => LET key == json_key(last'.arg.id)
           IN /\ DOMAIN tutors'[key] = DOMAIN last'.arg \cup {"notifications"}
              /\ \A f \in DOMAIN last'.arg \ {"notifications"} :
                    tutors'[key][f] = last'.arg[f]
              /\ NotificationsOf(tutors', key) = <<>>
              /\ DOMAIN tutors' = DOMAIN tutors
              /\ Cardinality(DOMAIN tutors') = Cardinality(DOMAIN tutors)]_vars

\* C4 witness: a tutor that had a name and two notifications was registered
\* again without a name.
ReregisterReplacesWitness ==
    /\ last.op = "register_tutor" /\ last.status = 201
    /\ last.existed /\ last.dropped = 2
    /\ "name" \notin DOMAIN last.arg
    /\ "name" \notin DOMAIN tutors[json_key(last.arg.id)]

\* C5: a RegisterTutor or RegisterStudent whose body has no id, or the empty
\* string as id, answers 400 and writes nothing.
RegisterWithoutIdIs400 ==
    [][(/\ Answered("register_tutor") \/ Answered("register_student")
        /\ Get(last'.arg, "id") \in {Null, Str("")})
        => last'.status = 400 /\ tutors' = tutors /\ students' = students]_vars

\* C5 witness: a registration with the empty string as id was refused while
\* both documents held records.
RegisterWithoutIdWitness ==
    /\ last.op \in {"register_tutor", "register_student"} /\ last.status = 400
    /\ "id" \in DOMAIN last.arg /\ last.arg.id = Str("")
    /\ DOMAIN tutors # {} /\ DOMAIN students # {}

\* C6: GetTutorNotifications answers 404 for an id that is no key of the
\* tutor map and 200 with the empty sequence for a tutor not selected since
\* its registration, and modifies neither document.
NotificationsOfUnselected ==
    [][Answered("get_tutor_notifications")
        => LET key == last'.arg.tutor_id.v
           IN /\ tutors' = tutors /\ students' = students
              /\ key \notin DOMAIN tutors => last'.status = 404
              /\ (key \in DOMAIN tutors /\ selected[key] = 0)
                    => last'.status = 200 /\ last'.notifications = <<>>]_vars

\* C6 witness: the notifications of a registered, never selected tutor were
\* read while another tutor held one.
NotificationsOfUnselectedWitness ==
    /\ last.op = "get_tutor_notifications" /\ last.status = 200
    /\ last.notifications = <<>>
    /\ selected[last.arg.tutor_id.v] = 0
    /\ \E k \in DOMAIN tutors : Len(NotificationsOf(tutors, k)) = 1

\* C10: served one at a time from two empty documents, every stored
\* notification names a student that is a key of the student map;
\* RegisterStudent and the two reads never change the tutor document, and
\* RegisterTutor and SelectTutor never change the student document.
NotificationsNameStudents ==
    /\ [](\A k \in DOMAIN tutors :
            \A i \in 1..Len(NotificationsOf(tutors, k)) :
                IsKey(NotificationsOf(tutors, k)[i].student_id, students))
    /\ [][/\ last'.op \in {"register_student", "get_all_tutors", "get_tutor_notifications"}
             => tutors' = tutors
          /\ last'.op \in {"register_tutor", "select_tutor"}
             => students' = students]_vars

\* C10 witness: one tutor holds notifications of two students.
NotificationsNameStudentsWitness ==
    \E k \in DOMAIN tutors :
        /\ Len(NotificationsOf(tutors, k)) = 2
        /\ NotificationsOf(tutors, k)[1].student_id # NotificationsOf(tutors, k)[2].student_id
        /\ last.op = "select_tutor"

\* ---------------------------------------------------- interleaved requests
\* The server runs each request in a thread of its own.  A handler's
\* load_data and save_data calls are the steps that touch the shared files;
\* what it computes in memory between them goes with the load before it.
\* A load and a save are each one step: a load sees the document as some
\* save left it.
\* loc[p].data is the dict the worker holds in memory, loc[p].snap the
\* document as the worker loaded it, and loc[p].lost the request (if any)
\* that saved the same document after the worker loaded it.

ConcTutorBodies ==
    {[id |-> Str("t1"), name |-> Str("Jane")], [id |-> Str("t1")],
     [id |-> Num("5")], [id |-> Str("")], [id |-> List1]}
ConcStudentBodies == {[id |-> Str("s1"), name |-> Str("Sam")], [id |-> Str("s2")]}
ConcSelectBodies ==
    {[tutorId |-> Str("t1"), studentId |-> Str("s1")],
     [tutorId |-> Str("t1"), studentId |-> Str("s2")],
     [tutorId |-> Str("5"), studentId |-> Str("s1")],
     [tutorId |-> Num("5"), studentId |-> Str("s1")],
     [tutorId |-> Str("t1"), studentId |-> List1]}

CanBegin(p) == loc[p].pc \in {"idle", "done"} /\ begun < MaxRequests

\* The worker has answered: only the request and its outcome are kept.
Done(w, status) ==
    [w EXCEPT !.pc = "done", !.status = status, !.data = EmptyDoc, !.snap = EmptyDoc]

Begin(op, arg) == [Idle EXCEPT !.op = op, !.arg = arg]

\* The positions in which a worker holds a copy of the tutors document
\* (of the students document) that it is going to write back.
TutorsLoaded == {"register_tutor_save", "select_tutor_students", "select_tutor_save"}
StudentsLoaded == {"register_student_save"}

\* Worker p saves a document: every other worker holding a copy of it that
\* it loaded before this save now holds a stale copy.
Overtaken(p, holders) ==
    [q \in Procs |->
        IF q = p THEN Done(loc[p], IF loc[p].op = "select_tutor" THEN 200 ELSE 201)
        ELSE IF loc[q].pc \in holders
             THEN [loc[q] EXCEPT !.lost = [op |-> loc[p].op, arg |-> loc[p].arg,
                                           now |-> loc[p].now]]
             ELSE loc[q]]

\* Faulty variant: the handler starts from an empty dict in place of the loaded one.
RegisterTutorLoadFresh(p, body) ==
    LET tutor_id == Get(body, "id")
        w == Begin("register_tutor", body)
    IN /\ CanBegin(p)
       /\ begun' = begun + 1
       /\ loc' = [loc EXCEPT ![p] =
                    IF ~Truthy(tutor_id) THEN Done(w, 400)
                    ELSE IF ~Hashable(tutor_id) THEN Done(w, 500)
                    ELSE [w EXCEPT !.pc = "register_tutor_save", !.snap = tutors,
                                   !.data = dict_setitem(EmptyDoc, tutor_id,
                                                         tutor_record(body))]]
       /\ UNCHANGED <<tutors, students, last, selected>>

\* register_tutor, lines 57-69.
RegisterTutorLoad(p, body) ==
    LET tutor_id == Get(body, "id")
        data == load_data(tutors)
        w == Begin("register_tutor", body)
    IN /\ CanBegin(p)
       /\ begun' = begun + 1
       /\ loc' = [loc EXCEPT ![p] =
                    IF ~Truthy(tutor_id) THEN Done(w, 400)
                    ELSE IF ~Hashable(tutor_id) THEN Done(w, 500)
                    ELSE [w EXCEPT !.pc = "register_tutor_save", !.snap = tutors,
                                   !.data = dict_setitem(data, tutor_id, tutor_record(body))]]
       /\ UNCHANGED <<tutors, students, last, selected>>

\* Faulty variant: a save that keeps the records the file holds under other keys.
RegisterTutorSaveMerged(p) ==
    /\ loc[p].pc = "register_tutor_save"
    /\ tutors' = [k \in DOMAIN tutors \cup DOMAIN save_data(loc[p].data) |->
                     IF k \in DOMAIN save_data(loc[p].data)
                     THEN save_data(loc[p].data)[k] ELSE tutors[k]]
    /\ loc' = Overtaken(p, TutorsLoaded)
    /\ UNCHANGED <<students, last, selected, begun>>

\* register_tutor, lines 70-72.
RegisterTutorSave(p) ==
    /\ loc[p].pc = "register_tutor_save"
    /\ tutors' = save_data(loc[p].data)
    /\ loc' = Overtaken(p, TutorsLoaded)
    /\ UNCHANGED <<students, last, selected, begun>>

\* register_student, lines 82-90.
RegisterStudentLoad(p, body) ==
    LET student_id == Get(body, "id")
        data == load_data(students)
        w == Begin("register_student", body)
    IN /\ CanBegin(p)
       /\ begun' = begun + 1
       /\ loc' = [loc EXCEPT ![p] =
                    IF ~Truthy(student_id) THEN Done(w, 400)
                    ELSE IF ~Hashable(student_id) THEN Done(w, 500)
                    ELSE [w EXCEPT !.pc = "register_student_save", !.snap = students,
                                   !.data = dict_setitem(data, student_id, body)]]
       /\ UNCHANGED <<tutors, students, last, selected>>

\* register_student, lines 91-93.
RegisterStudentSave(p) ==
    /\ loc[p].pc = "register_student_save"
    /\ students' = save_data(loc[p].data)
    /\ loc' = Overtaken(p, StudentsLoaded)
    /\ UNCHANGED <<tutors, last, selected, begun>>

\* select_tutor, lines 121-129.
SelectTutorLoad(p, body) ==
    LET w == Begin("select_tutor", body) IN
    /\ CanBegin(p)
    /\ begun' = begun + 1
    /\ loc' = [loc EXCEPT ![p] =
                 IF ~Truthy(Get(body, "tutorId")) \/ ~Truthy(Get(body, "studentId"))
                 THEN Done(w, 400)
                 ELSE [w EXCEPT !.pc = "select_tutor_students", !.snap = tutors,
                                !.data = load_data(tutors)]]
    /\ UNCHANGED <<tutors, students, last, selected>>

\* select_tutor, lines 130-144.
SelectTutorStudents(p, now) ==
    LET w == loc[p]
        tutor_id == Get(w.arg, "tutorId")
        student_id == Get(w.arg, "studentId")
        stop == select_check(tutor_id, student_id, w.data, load_data(students))
        data == append_notification(w.data, tutor_id, notification(student_id, now))
    IN /\ w.pc = "select_tutor_students"
       /\ stop = 0 => WithinBounds(save_data(data))
       /\ loc' = [loc EXCEPT ![p] =
                    IF stop # 0 THEN Done(w, stop)
                    ELSE [w EXCEPT !.pc = "select_tutor_save", !.data = data, !.now = now]]
       /\ UNCHANGED <<tutors, students, last, selected, begun>>

\* select_tutor, lines 145-147.
SelectTutorSave(p) ==
    /\ loc[p].pc = "select_tutor_save"
    /\ tutors' = save_data(loc[p].data)
    /\ loc' = Overtaken(p, TutorsLoaded)
    /\ UNCHANGED <<students, last, selected, begun>>

\* get_all_tutors, lines 104-111: one load and the response.
ListTutorsLoad(p) ==
    /\ CanBegin(p)
    /\ begun' = begun + 1
    /\ loc' = [loc EXCEPT ![p] = Done(Begin("get_all_tutors", EmptyDoc), 200)]
    /\ UNCHANGED <<tutors, students, last, selected>>

\* get_tutor_notifications, lines 156-165: one load and the response.
GetTutorNotificationsLoad(p, tutor_id) ==
    /\ CanBegin(p)
    /\ begun' = begun + 1
    /\ loc' = [loc EXCEPT ![p] =
                 Done(Begin("get_tutor_notifications", [tutor_id |-> Str(tutor_id)]),
                      get_tutor_notifications(tutor_id, tutors).resp.status)]
    /\ UNCHANGED <<tutors, students, last, selected>>

NextConc ==
    \E p \in Procs :
        \/ \E body \in ConcTutorBodies : RegisterTutorLoad(p, body)
        \/ RegisterTutorSave(p)
        \/ \E body \in ConcStudentBodies : RegisterStudentLoad(p, body)
        \/ RegisterStudentSave(p)
        \/ \E body \in ConcSelectBodies : SelectTutorLoad(p, body)
        \/ \E now \in Timestamps : SelectTutorStudents(p, now)
        \/ SelectTutorSave(p)
        \/ ListTutorsLoad(p)
        \/ \E tutor_id \in PathIds : GetTutorNotificationsLoad(p, tutor_id)

SpecConc == Init /\ [][NextConc]_vars

\* ------------------------------------- properties, interleaved requests
\* Worker p's step is the save that ends its request.
Saving(p) ==
    /\ loc[p].pc \in {"register_tutor_save", "register_student_save", "select_tutor_save"}
    /\ loc'[p].pc = "done"

\* The document a mutating request leaves when it runs with no other request
\* between its load and its save.
Alone(w) ==
    CASE w.op = "register_tutor" -> register_tutor(w.arg, w.snap).file
      [] w.op = "register_student" -> register_student(w.arg, w.snap).file
      [] w.op = "select_tutor" ->
            save_data(append_notification(load_data(w.snap), w.arg.tutorId,
                                          notification(w.arg.studentId, w.now)))

\* The key a mutating request writes.
KeyWritten(op, arg) ==
    IF op = "select_tutor" THEN json_key(arg.tutorId) ELSE json_key(arg.id)

\* The record a registration request stores under its key.
RecordOf(op, arg) == IF op = "register_tutor" THEN StoredFor(arg) ELSE arg

\* Worker p's step is a save of a document that another request (loc[p].lost)
\* saved after p loaded it: both loaded before either saved.
OvertakenSave(p) == Saving(p) /\ loc[p].lost.op # "none"

\* The document p's save leaves.
Saved(p) == IF loc[p].op = "register_student" THEN students' ELSE tutors'

\* The later save leaves the later saver's in-memory map, which is what its
\* request alone makes of the document it loaded; both were answered 201 or
\* 200; a record the earlier request replaced is back as it was and a
\* notification it appended is not there.
LaterMapWins(p) ==
    LET w == loc[p]
        e == w.lost
        doc == Saved(p)
        k == KeyWritten(e.op, e.arg)
    IN /\ loc'[p].status \in {200, 201}
       /\ e.op \in {"register_tutor", "register_student", "select_tutor"}
       /\ DOMAIN doc = {json_key(j) : j \in DOMAIN w.data}
       /\ \A j \in DOMAIN w.data :
             (j.t # "str" \/ ~\E i \in DOMAIN w.data :
                                 i.t # "str" /\ json_key(i) = json_key(j))
             => doc[json_key(j)] = w.data[j]
       /\ doc = Alone(w)
       /\ KeyWritten(w.op, w.arg) # k
             => IF k \in DOMAIN w.snap THEN doc[k] = w.snap[k]
                ELSE k \notin DOMAIN doc
       /\ (e.op = "select_tutor" /\ k \in DOMAIN w.snap /\ k \in DOMAIN doc)
             => /\ Len(doc[k]["notifications"]) <= Len(w.snap[k]["notifications"]) + 1
                /\ ~(w.op = "select_tutor" /\ w.arg = e.arg)
                      => \A i \in 1..Len(doc[k]["notifications"]) :
                            i > Len(w.snap[k]["notifications"])
                            => doc[k]["notifications"][i].student_id # e.arg.studentId

\* The record the earlier request registered is not in the document.
EarlierRecordAbsent(p) ==
    LET e == loc[p].lost
        k == KeyWritten(e.op, e.arg)
    IN k \notin DOMAIN Saved(p) \/ Saved(p)[k] # RecordOf(e.op, e.arg)

\* The later request registered the very same record, or the document the
\* later request loaded held that record already.
SameRecordAnyway(p) ==
    LET w == loc[p]
        e == w.lost
        k == KeyWritten(e.op, e.arg)
    IN \/ w.op = e.op /\ RecordOf(w.op, w.arg) = RecordOf(e.op, e.arg)
       \/ k \in DOMAIN w.snap /\ w.snap[k] = RecordOf(e.op, e.arg)

KeysKept ==
    /\ DOMAIN tutors \subseteq DOMAIN tutors'
    /\ DOMAIN students \subseteq DOMAIN students'

\* C8 as stated: also when the loads and saves of requests interleave, an id
\* that is a key of the tutor map (of the student map) stays a key of it.
ProfilesNeverDestroyed == [][KeysKept]_vars

\* C8 amended: an id that is a key of a map stays a key of it through every
\* step but the save of a request whose document another request has saved
\* since the request loaded it; so no key is lost when the requests run one
\* at a time.
ProfilesKeptUnlessOvertaken ==
    [][(\A p \in Procs : Saving(p) => loc[p].lost.op = "none") => KeysKept]_vars

\* C8 witness: a registration nobody overtook was saved into a map that
\* keeps the tutor it held before.
ProfilesKeptWitness ==
    \E p \in Procs :
        /\ loc[p].pc = "done" /\ loc[p].op = "register_tutor" /\ loc[p].status = 201
        /\ loc[p].lost.op = "none"
        /\ Cardinality(DOMAIN tutors) = 2

IsSequence(x) == DOMAIN x = 1..Len(x)

\* No select has been answered 500 for a tutor without notifications: a 500
\* came from looking up a JSON array.
SelectFailsOnArraysOnly ==
    /\ \A p \in Procs :
          (loc[p].op = "select_tutor" /\ loc[p].status = 500)
          => ~Hashable(loc[p].arg.tutorId) \/ ~Hashable(loc[p].arg.studentId)
    /\ \A p \in Procs :
          loc[p].pc \in TutorsLoaded
          => \A k \in DOMAIN loc[p].data : "notifications" \in DOMAIN loc[p].data[k]

\* C9 as stated: in every state reached from two empty documents, by any
\* interleaving, every stored tutor record has a notifications sequence and
\* its key equals its id, and no SelectTutor fails for lack of notifications.
TutorRecordsKeyedById ==
    /\ \A k \in DOMAIN tutors :
          /\ "notifications" \in DOMAIN tutors[k]
          /\ IsSequence(tutors[k]["notifications"])
          /\ Get(tutors[k], "id") = Str(k)
    /\ SelectFailsOnArraysOnly

\* C9 amended: every stored tutor record has a notifications sequence and its
\* key is the member name json.dump gives its id (the id itself when the id
\* is a string, its decimal text when it is a number), and no SelectTutor
\* fails for lack of notifications.
TutorRecordsKeyedByIdText ==
    /\ \A k \in DOMAIN tutors :
          /\ "notifications" \in DOMAIN tutors[k]
          /\ IsSequence(tutors[k]["notifications"])
          /\ "id" \in DOMAIN tutors[k]
          /\ json_key(tutors[k]["id"]) = k
          /\ tutors[k]["id"].t = "str" => tutors[k]["id"] = Str(k)
    /\ SelectFailsOnArraysOnly

\* C9 witness: the tutor registered with the number 5 as id holds a
\* notification under the key "5", and a select of an array was answered 500.
TutorRecordsWitness ==
    /\ "5" \in DOMAIN tutors
    /\ tutors["5"]["id"] = Num("5")
    /\ Len(tutors["5"]["notifications"]) = 1
    /\ \E p \in Procs : loc[p].op = "select_tutor" /\ loc[p].status = 500

====
